---- MODULE Spec2Model ----
(***************************************************************************)
(* Model of golden_wind.py: a Telegram bot that receives PDF documents     *)
(* from one authorized user, rewrites text on the first page through the   *)
(* fitz document library and sends the result back.                        *)
(*                                                                         *)
(* Text is a sequence of Unicode code points ("x.pdf" is                   *)
(* <<120, 46, 112, 100, 102>>).  A page is a set of glyphs on a grid of    *)
(* unit cells: the glyph [x0, y0, c, size] has the                         *)
(* bounding box (x0, y0, x0 + 1, y0 + 1), y growing downwards as in fitz.  *)
(* Every glyph is one cell wide whatever its font size, and the baseline   *)
(* of a line is the bottom edge of its cells.                              *)
(***************************************************************************)
EXTENDS Integers, Sequences, FiniteSets, TLC

VARIABLES
    tokenFile,      \* content of .token.txt (Optional text)
    userIdFile,     \* content of .user_id.txt (Optional text)
    rulesFile,      \* state of .actions.yaml
    app,            \* position of main(): "init", "constructed", "running", "crashed"
    filterUser,     \* user id held by the filter built in __init__
    msgCount,       \* number of updates dispatched so far
    inbox,          \* msg id -> sender, message, document and file name of the update
    pc,             \* position of the handler invocation in flight
    update,         \* the update of the handler invocation in flight
    dlDir,          \* temporary directory of download_document
    stray,          \* files written outside the temporary directories
    procDir,        \* temporary directory of process_document
    document,       \* the fitz document open in process_document
    acts,           \* the list self.actions returned for the loop of line 67
    idx,            \* 1-based index of the next entry of acts
    calls,          \* fitz page calls made by the invocation in flight
    downloads,      \* msg ids for which download_document was entered
    substitutions,  \* msg ids for which process_document was entered
    replies,        \* msg ids for which send_document returned
    raised,         \* msg ids whose handler raised
    lastActs        \* the rule list applied to the previous processed document

vars == <<tokenFile, userIdFile, rulesFile, app, filterUser, msgCount, inbox,
          pc, update, dlDir, stray, procDir, document, acts, idx, calls, downloads,
          substitutions, replies, raised, lastActs>>

-----------------------------------------------------------------------------
(* Bounds *)

\* Updates dispatched in one run of the bot.
MaxMsgs == 2

\* Columns scanned by a text search (cells 0 .. PageW - 1).
PageW == 3

\* Rows scanned by a text search (cells 0 .. PageH - 1).
PageH == 2

-----------------------------------------------------------------------------
(* Optional values: Python's None against a present text *)

None == [none |-> TRUE, str |-> <<>>]

Str(s) == [none |-> FALSE, str |-> s]

\* Python truthiness of an Optional[str]: None and "" are falsy.
Truthy(v) == ~v.none /\ v.str # <<>>

-----------------------------------------------------------------------------
(* Text helpers *)

\* The whitespace int() ignores around a number: \t \n \v \f \r, space,
\* U+0085, U+00A0, U+1680, U+2000..U+200A, U+2028, U+2029, U+202F, U+205F,
\* U+3000.  (U+001C..U+001F, which str.strip() removes, make int() raise.)
IntWhitespace ==
    {9, 10, 11, 12, 13, 32, 133, 160, 5760} \cup (8192..8202)
        \cup {8232, 8233, 8239, 8287, 12288}

\* The digit zero of every block of Unicode decimal digits int() accepts
\* (the 68 blocks of Unicode 15.1, which Python 3.13 follows; the program's
\* annotations need that version); the digits 1 to 9 of a block follow its
\* zero.
DecimalZeros ==
    {48, 1632, 1776, 1984, 2406, 2534, 2662, 2790,
      2918, 3046, 3174, 3302, 3430, 3558, 3664, 3792,
      3872, 4160, 4240, 6112, 6160, 6470, 6608, 6784,
      6800, 6992, 7088, 7232, 7248, 42528, 43216, 43264,
      43472, 43504, 43600, 44016, 65296, 66720, 68912, 69734,
      69872, 69942, 70096, 70384, 70736, 70864, 71248, 71360,
      71472, 71904, 72016, 72784, 73040, 73120, 73552, 92768, 92864,
      93008, 120782, 120792, 120802, 120812, 120822, 123200, 123632,
      124144, 125264, 130032 }

IsDigit(c) == \E z \in DecimalZeros : z <= c /\ c <= z + 9

DigitVal(c) == c - (CHOOSE z \in DecimalZeros : z <= c /\ c <= z + 9)

RECURSIVE IntStrip(_)
\* The text without the leading and trailing whitespace int() ignores.
IntStrip(s) ==
    IF s = <<>> THEN s
    ELSE IF Head(s) \in IntWhitespace THEN IntStrip(Tail(s))
    ELSE IF s[Len(s)] \in IntWhitespace THEN IntStrip(SubSeq(s, 1, Len(s) - 1))
    ELSE s

RECURSIVE Decimal(_)
\* The value of a sequence of digits.
Decimal(s) ==
    IF s = <<>> THEN 0
    ELSE 10 * Decimal(SubSeq(s, 1, Len(s) - 1)) + DigitVal(s[Len(s)])

\* int(text): [ok, value]; ok is FALSE where int() raises ValueError.  After
\* the whitespace and an optional sign (43 "+", 45 "-") come digits, with
\* single underscores (95) allowed between two digits; more than 4300 digits
\* are refused.
ParseInt(s) ==
    LET t == IntStrip(s)
        signed == t # <<>> /\ Head(t) \in {43, 45}
        body == IF signed THEN Tail(t) ELSE t
        digits == SelectSeq(body, IsDigit)
        good == /\ body # <<>>
                /\ \A i \in 1..Len(body) :
                      \/ IsDigit(body[i])
                      \/ /\ body[i] = 95
                         /\ i > 1
                         /\ i < Len(body)
                         /\ IsDigit(body[i - 1])
                         /\ IsDigit(body[i + 1])
                /\ Len(digits) <= 4300
    IN  [ok |-> good,
         value |-> IF ~good THEN 0
                   ELSE IF signed /\ Head(t) = 45 THEN 0 - Decimal(digits)
                   ELSE Decimal(digits)]

\* str.endswith
EndsWith(s, suffix) ==
    /\ Len(s) >= Len(suffix)
    /\ SubSeq(s, Len(s) - Len(suffix) + 1, Len(s)) = suffix

\* ".pdf"
DotPdf == <<46, 112, 100, 102>>

RECURSIVE Split(_)
\* The text cut at every "/" (47).
Split(s) ==
    LET cuts == {i \in 1..Len(s) : s[i] = 47}
        i == CHOOSE c \in cuts : \A d \in cuts : c <= d
    IN  IF cuts = {} THEN <<s>>
        ELSE <<SubSeq(s, 1, i - 1)>> \o Split(SubSeq(s, i + 1, Len(s)))

IsPart(c) == c # <<>> /\ c # <<46>>

\* The components pathlib keeps of a relative or absolute path: empty ones
\* and "." are dropped, ".." stays.
Parts(name) == SelectSeq(Split(name), IsPart)

\* A name starting with "/" replaces the directory it is joined to.
IsAbsolute(name) == name # <<>> /\ name[1] = 47

\* Path(temp_dir) / file_name, as seen from temp_dir.
Location(name) == [abs |-> IsAbsolute(name), parts |-> Parts(name)]

\* Path.name: the final component.  (A name without one, such as "", names
\* the temporary directory itself; no name that ends in ".pdf" is like that.)
FinalName(name) ==
    IF Parts(name) = <<>> THEN <<>> ELSE Parts(name)[Len(Parts(name))]

\* Index of the last "." (46) of a final component when it starts a suffix,
\* that is when it is neither the first nor the last character; 0 otherwise.
LastDot(n) ==
    LET ds == {i \in 1..Len(n) : n[i] = 46}
        last == CHOOSE i \in ds : \A j \in ds : j <= i
    IN  IF ds = {} THEN 0
        ELSE IF last > 1 /\ last < Len(n) THEN last ELSE 0

\* Path.suffix: the last extension of the final component, dot included.
PathSuffix(name) ==
    LET n == FinalName(name)
    IN  IF LastDot(n) = 0 THEN <<>> ELSE SubSeq(n, LastDot(n), Len(n))

\* Path.stem: the final component without its last extension.
PathStem(name) ==
    LET n == FinalName(name)
    IN  IF LastDot(n) = 0 THEN n ELSE SubSeq(n, 1, LastDot(n) - 1)

\* Where download_to_drive writes Path(temp_dir) / file_name:
\*   "inside"    a plain name: in the temporary directory;
\*   "missing"   below a directory the fresh temporary directory does not
\*               have: the write raises;
\*   "outside"   "../name": beside the temporary directory, in the directory
\*               it was made in;
\*   "elsewhere" further up or at an absolute path: written there if that
\*               directory exists and is writable.
Where(name) ==
    LET loc == Location(name)
        dirs == SubSeq(loc.parts, 1, Len(loc.parts) - 1)
    IN  IF ~loc.abs /\ dirs = <<>> THEN "inside"
        ELSE IF ~loc.abs /\ dirs[1] # <<46, 46>> THEN "missing"
        ELSE IF ~loc.abs /\ dirs = << <<46, 46>> >> THEN "outside"
        ELSE "elsewhere"

\* Values random_string(8) is drawn from (two of the 36^8): "a1b2c3d4" and
\* "z9y8x7w6".
Hashes == { <<97, 49, 98, 50, 99, 51, 100, 52>>,
            <<122, 57, 121, 56, 120, 55, 119, 54>> }

\* f"{path.stem}-{hash}.{path.suffix}" (45 "-", 46 ".")
OutputName(name, hash) ==
    PathStem(name) \o <<45>> \o hash \o <<46>> \o PathSuffix(name)

-----------------------------------------------------------------------------
(* The fitz page: glyphs, search, redaction, insertion *)

\* A page built from its lines of text, all glyphs in one font size; a space
\* (32) leaves a cell empty.
MkPage(rows, size) ==
    {[x0 |-> i - 1, y0 |-> r - 1, c |-> rows[r][i], size |-> size] :
        <<r, i>> \in {p \in (1..Len(rows)) \X (1..PageW) :
                        p[2] <= Len(rows[p[1]]) /\ rows[p[1]][p[2]] # 32}}

\* Case folding of the letters A to Z (fitz searches ignore case).
Lower(c) == IF c >= 65 /\ c <= 90 THEN c + 32 ELSE c

\* The needle's characters stand in the cells x, x + 1, ... of row y.
MatchAt(page, text, x, y) ==
    \A i \in 1..Len(text) :
        \E g \in page : /\ g.x0 = x + i - 1
                        /\ g.y0 = y
                        /\ Lower(g.c) = Lower(text[i])

RECURSIVE RowHits(_, _, _, _)
\* Occurrences in row y from column x on, left to right, not overlapping;
\* each is the rectangle around the matched glyphs.
RowHits(page, text, x, y) ==
    IF text = <<>> \/ x + Len(text) > PageW THEN <<>>
    ELSE IF MatchAt(page, text, x, y)
         THEN <<[x0 |-> x, y0 |-> y, x1 |-> x + Len(text), y1 |-> y + 1]>>
              \o RowHits(page, text, x + Len(text), y)
         ELSE RowHits(page, text, x + 1, y)

RECURSIVE PageHits(_, _, _)
PageHits(page, text, y) ==
    IF y >= PageH THEN <<>>
    ELSE RowHits(page, text, 0, y) \o PageHits(page, text, y + 1)

\* page.search_for(text): the occurrences, top to bottom, left to right.
search_for(page, text) == PageHits(page, text, 0)

\* A glyph's box and a rectangle share area.
Overlaps(g, rect) ==
    /\ g.x0 < rect.x1 /\ g.x0 + 1 > rect.x0
    /\ g.y0 < rect.y1 /\ g.y0 + 1 > rect.y0

\* page.add_redact_annot(rect); page.apply_redactions(): every glyph touching
\* the rectangle is removed.
apply_redactions(page, rect) == {g \in page : ~Overlaps(g, rect)}

\* fontsize=8 of the insert_text call.
FontSize == 8

\* page.insert_text(point, text, fontsize=8, ...): point is the bottom-left
\* corner (baseline origin) of the first character.
insert_text(page, point, text) ==
    page \cup {[x0 |-> point.x + i - 1, y0 |-> point.y - 1, c |-> text[i],
                size |-> FontSize] : i \in 1..Len(text)}

InsertionPointTopLeft(rect) == [x |-> rect.x0, y |-> rect.y0]

\* fitz.Point(rect.x0, rect.y1)
InsertionPoint(rect) == [x |-> rect.x0, y |-> rect.y1]

InsertedTextNew(text, new_text) == new_text

\* The text argument of insert_text: the variable text, not new_text.
InsertedText(text, new_text) == text

SkippedIfBothFalsy(entry) == ~Truthy(entry.replace) /\ ~Truthy(entry.with)

\* if not text or not new_text: continue
Skipped(entry) == ~Truthy(entry.replace) \/ ~Truthy(entry.with)

SearchedPageOriginal(first, page) == first

\* The page a search runs on: the live page object of line 65, which carries
\* every earlier mutation (first is the page as selected, before the loop).
SearchedPage(first, page) == page

NoRect == [x0 |-> 0, y0 |-> 0, x1 |-> 0, y1 |-> 0]

NoPoint == [x |-> 0, y |-> 0]

\* One record of a fitz call made for entry number i.
Call(op, i, text, rect, point, page) ==
    [op |-> op, entry |-> i, text |-> text, rect |-> rect, point |-> point,
     page |-> page]

RECURSIVE Replace(_, _, _, _, _)
\* for i, rect in enumerate(found): redact, then insert.  Returns the page
\* and the calls made.
Replace(page, i, text, new_text, found) ==
    IF found = <<>> THEN [page |-> page, calls |-> <<>>]
    ELSE LET rect == Head(found)
             point == InsertionPoint(rect)
             ins == InsertedText(text, new_text)
             after == insert_text(apply_redactions(page, rect), point, ins)
             rest == Replace(after, i, text, new_text, Tail(found))
         IN  [page |-> rest.page,
              calls |-> << Call("apply_redactions", i, <<>>, rect, NoPoint, {}),
                           Call("insert_text", i, ins, rect, point, {}) >>
                        \o rest.calls]

\* The body of the loop of line 67 for entry number i.
ApplyEntry(first, page, i, entry) ==
    IF Skipped(entry) THEN [page |-> page, calls |-> <<>>]
    ELSE LET text == entry.replace.str
             new_text == entry.with.str
             on == SearchedPage(first, page)
             found == search_for(on, text)
             done == Replace(page, i, text, new_text, found)
         IN  [page |-> done.page,
              calls |-> <<Call("search_for", i, text, NoRect, NoPoint, on)>>
                        \o done.calls]

selectNothing(pages, indices) == pages

\* document.select([0]): the pages at the listed 0-based indices, in order.
\* Defined only when every index names a page.
select(pages, indices) == [k \in 1..Len(indices) |-> pages[indices[k] + 1]]

\* select raises when an index names no page.
SelectFails(pages, indices) ==
    \E k \in 1..Len(indices) : indices[k] + 1 > Len(pages)

-----------------------------------------------------------------------------
(* Inputs *)

\* Contents of .token.txt: missing, or the token "tok".
TokenFiles == {None, Str(<<116, 111, 107>>)}

\* Contents of .user_id.txt: missing, "x", "7\r\n" and "1_0".
UserIdFiles ==
    {None, Str(<<120>>), Str(<<55, 13, 10>>), Str(<<49, 95, 48>>)}

Rule(find, repl) == [replace |-> find, with |-> repl]

\* - replace: "ab", with: "c"
\* - replace: "a", with: "c"
RulesAB == << Rule(Str(<<97, 98>>), Str(<<99>>)),
              Rule(Str(<<97>>), Str(<<99>>)) >>

\* - with: "c"
\* - replace: "b", with: ""
\* - replace: "b", with: "cc"
RulesInert == << Rule(None, Str(<<99>>)),
                 Rule(Str(<<98>>), Str(<<>>)),
                 Rule(Str(<<98>>), Str(<<99, 99>>)) >>

\* States of .actions.yaml: missing, not parseable, or a list of mappings
\* (the empty list among them).
RulesFiles ==
    { [exists |-> FALSE, parses |-> FALSE, entries |-> <<>>],
      [exists |-> TRUE, parses |-> FALSE, entries |-> <<>>],
      [exists |-> TRUE, parses |-> TRUE, entries |-> <<>>],
      [exists |-> TRUE, parses |-> TRUE, entries |-> RulesAB],
      [exists |-> TRUE, parses |-> TRUE, entries |-> RulesInert] }

\* File contents: not a PDF, a PDF without pages, one page, two pages.
Corrupt == [valid |-> FALSE, pages |-> <<>>]

NoPages == [valid |-> TRUE, pages |-> <<>>]

\* One page, one line "Aba" in size 12.
OnePage == [valid |-> TRUE, pages |-> << MkPage(<< <<65, 98, 97>> >>, 12) >>]

\* Page 0 with the lines "ab " and "bAb", page 1 with the line "bbb", size 8.
TwoPages ==
    [valid |-> TRUE,
     pages |-> << MkPage(<< <<97, 98, 32>>, <<98, 65, 98>> >>, 8),
                  MkPage(<< <<98, 98, 98>> >>, 8) >>]

\* "x.pdf"
NameLowerPdf == <<120, 46, 112, 100, 102>>

\* "x.PDF"
NameUpperPdf == <<120, 46, 80, 68, 70>>

\* "x.docx"
NameDocx == <<120, 46, 100, 111, 99, 120>>

\* "../x.pdf"
NameParentPdf == <<46, 46, 47, 120, 46, 112, 100, 102>>

\* "a/x.pdf"
NameSubdirPdf == <<97, 47, 120, 46, 112, 100, 102>>

\* "/x.pdf"
NameRootPdf == <<47, 120, 46, 112, 100, 102>>

NoDocument == [none |-> TRUE, file_name |-> None, data |-> Corrupt]

Document(name, data) == [none |-> FALSE, file_name |-> name, data |-> data]

\* An update whose .message is set.
Update(sender, doc) ==
    [from_user |-> sender, message |-> TRUE, chat_id |-> sender * 10,
     document |-> doc]

\* An update whose .message is None: an edited message of the sender, which
\* the message handler is handed as well.
EditedUpdate(sender) ==
    [from_user |-> sender, message |-> FALSE, chat_id |-> 0,
     document |-> NoDocument]

\* The updates the platform may deliver.
Updates ==
    {Update(8, NoDocument), Update(8, Document(Str(NameLowerPdf), OnePage)),
     EditedUpdate(7)}
    \cup {Update(7, d) :
            d \in {NoDocument,
                   Document(None, OnePage),
                   Document(Str(NameDocx), OnePage),
                   Document(Str(NameUpperPdf), OnePage),
                   Document(Str(NameParentPdf), OnePage),
                   Document(Str(NameSubdirPdf), OnePage),
                   Document(Str(NameRootPdf), OnePage)}}
    \cup {Update(7, Document(Str(NameLowerPdf), data)) :
            data \in {Corrupt, NoPages, OnePage, TwoPages}}

NoUpdate == Update(0, NoDocument)

-----------------------------------------------------------------------------
(* Configuration properties of App *)

\* App._token: Path.read_text raises when the file is missing.
token == [ok |-> ~tokenFile.none, value |-> tokenFile.str]

user_idLenient ==
    IF userIdFile.none \/ ~ParseInt(userIdFile.str).ok
    THEN [ok |-> TRUE, value |-> 0]
    ELSE ParseInt(userIdFile.str)

\* App._user_id: int(read_text()).
user_id ==
    IF userIdFile.none THEN [ok |-> FALSE, value |-> 0]
    ELSE ParseInt(userIdFile.str)

actionsCached ==
    IF lastActs.none
    THEN [ok |-> rulesFile.exists /\ rulesFile.parses, list |-> rulesFile.entries]
    ELSE [ok |-> TRUE, list |-> lastActs.list]

\* App.actions: opens and parses the rules file on every access.
actions ==
    [ok |-> rulesFile.exists /\ rulesFile.parses, list |-> rulesFile.entries]

-----------------------------------------------------------------------------
(* Temporary directories *)

NoDir == [exists |-> FALSE, files |-> {}]

\* tempfile.TemporaryDirectory().__enter__
mkdtemp == [exists |-> TRUE, files |-> {}]

cleanupLeak(dir) == dir

\* tempfile.TemporaryDirectory().__exit__: the directory and its files go.
cleanup(dir) == NoDir

Closed == [open |-> FALSE, pages |-> <<>>]

-----------------------------------------------------------------------------
(* Initial state *)

Init ==
    /\ tokenFile \in TokenFiles
    /\ userIdFile \in UserIdFiles
    /\ rulesFile \in RulesFiles
    /\ app = "init"
    /\ filterUser = 0
    /\ msgCount = 0
    /\ inbox = <<>>
    /\ pc = "idle"
    /\ update = NoUpdate
    /\ dlDir = NoDir
    /\ stray = {}
    /\ procDir = NoDir
    /\ document = Closed
    /\ acts = <<>>
    /\ idx = 0
    /\ calls = <<>>
    /\ downloads = {}
    /\ substitutions = {}
    /\ replies = {}
    /\ raised = {}
    /\ lastActs = [none |-> TRUE, list |-> <<>>]

-----------------------------------------------------------------------------
(* Startup: main() -> App() -> start() *)

\* App.__init__: reads the token, builds the application, reads the user id
\* for the filter and registers the handler.  The rules file is not read.
Construct ==
    /\ app = "init"
    /\ IF token.ok /\ user_id.ok
       THEN /\ app' = "constructed"
            /\ filterUser' = user_id.value
       ELSE /\ app' = "crashed"
            /\ filterUser' = filterUser
    /\ UNCHANGED <<stray, tokenFile, userIdFile, rulesFile, msgCount, inbox, pc,
                   update, dlDir, procDir, document, acts, idx, calls,
                   downloads, substitutions, replies, raised, lastActs>>

\* App.start: run_polling enters the receive loop.
Start ==
    /\ app = "constructed"
    /\ app' = "running"
    /\ UNCHANGED <<stray, tokenFile, userIdFile, rulesFile, filterUser, msgCount,
                   inbox, pc, update, dlDir, procDir, document, acts, idx,
                   calls, downloads, substitutions, replies, raised, lastActs>>

\* The rules file is edited, removed or broken from outside the program.
EditRulesFile ==
    /\ \E f \in RulesFiles \ {rulesFile} : rulesFile' = f
    /\ UNCHANGED <<stray, tokenFile, userIdFile, app, filterUser, msgCount, inbox, pc,
                   update, dlDir, procDir, document, acts, idx, calls,
                   downloads, substitutions, replies, raised, lastActs>>

-----------------------------------------------------------------------------
(* The handler *)

\* The update's sender passes filters.User(user_id).
filter(u) == u.from_user = filterUser

RepliesAlways(err) ==
    replies \cup {[msg |-> msgCount, chat_id |-> update.chat_id]}

\* The replies once the handler has left: send_document is the last statement
\* of the handler, so a reply exists only if nothing raised before or in it.
Replies(err) ==
    IF err THEN replies
    ELSE replies \cup {[msg |-> msgCount, chat_id |-> update.chat_id]}

\* The handler leaves, returning (err = FALSE) or raising (err = TRUE): the
\* with blocks unwind, both temporary directories are cleaned up, and the
\* receive loop goes on with the next update.
Leave(err) ==
    /\ pc' = "idle"
    /\ update' = NoUpdate
    /\ dlDir' = IF dlDir.exists THEN cleanup(dlDir) ELSE dlDir
    /\ procDir' = IF procDir.exists THEN cleanup(procDir) ELSE procDir
    /\ document' = Closed
    /\ acts' = <<>>
    /\ idx' = 0
    /\ calls' = <<>>
    /\ raised' = IF err THEN raised \cup {msgCount} ELSE raised
    /\ replies' = Replies(err)
    /\ lastActs' = IF pc \in {"rules", "send"}
                   THEN [none |-> FALSE, list |-> acts]
                   ELSE lastActs

\* An update arrives while no handler runs (the application is built with
\* its defaults, which hand updates to the handler one at a time); the filter
\* and lines 99-104 of the handler decide whether it goes on to the download.
Receive ==
    /\ app = "running"
    /\ pc = "idle"
    /\ msgCount < MaxMsgs
    /\ \E u \in Updates :
        /\ msgCount' = msgCount + 1
        /\ inbox' = Append(inbox, [from_user |-> u.from_user,
                                   has_message |-> u.message,
                                   has_document |-> ~u.document.none,
                                   file_name |-> u.document.file_name])
        /\ IF ~filter(u)
           THEN \* filtered out: the handler is not called
                UNCHANGED <<pc, update, raised>>
           ELSE IF ~u.message
           THEN \* line 99: None.chat_id raises AttributeError
                /\ raised' = raised \cup {msgCount + 1}
                /\ UNCHANGED <<pc, update>>
           ELSE IF u.document.none
           THEN \* "not document": return
                UNCHANGED <<pc, update, raised>>
           ELSE IF u.document.file_name.none
           THEN \* None.endswith raises AttributeError
                /\ raised' = raised \cup {msgCount + 1}
                /\ UNCHANGED <<pc, update>>
           ELSE IF ~EndsWith(u.document.file_name.str, DotPdf)
           THEN UNCHANGED <<pc, update, raised>>
           ELSE /\ pc' = "get_file"
                /\ update' = u
                /\ UNCHANGED raised
    /\ UNCHANGED <<stray, tokenFile, userIdFile, rulesFile, app, filterUser, dlDir,
                   procDir, document, acts, idx, calls, downloads,
                   substitutions, replies, lastActs>>

\* download_document, line 50 to 53: bot.get_file, then the temporary
\* directory is made.
GetFile ==
    /\ pc = "get_file"
    /\ downloads' = downloads \cup {msgCount}
    /\ \/ /\ dlDir' = mkdtemp
          /\ pc' = "download"
          /\ UNCHANGED <<update, procDir, document, acts, idx, calls, raised,
                         replies, lastActs>>
       \/ Leave(TRUE)
    /\ UNCHANGED <<stray, tokenFile, userIdFile, rulesFile, app, filterUser, msgCount,
                   inbox, substitutions>>

\* download_document, line 53 to 55: the file is written at
\* Path(temp_dir) / file_name, which follows the separators of the name the
\* sender gave, and that path is yielded.  The write raises on a failed
\* transfer or when the path cannot be written.
Download ==
    /\ pc = "download"
    /\ LET name == update.document.file_name.str
           data == update.document.data
       IN  \/ /\ Where(name) = "inside"
              /\ dlDir' = [dlDir EXCEPT !.files =
                             {[name |-> FinalName(name), data |-> data]}]
              /\ pc' = "process"
              /\ UNCHANGED <<stray, update, procDir, document, acts, idx,
                             calls, raised, replies, lastActs>>
           \/ /\ Where(name) \in {"outside", "elsewhere"}
              /\ stray' = {f \in stray : f.path # Location(name)}
                            \cup {[path |-> Location(name), data |-> data]}
              /\ pc' = "process"
              /\ UNCHANGED <<dlDir, update, procDir, document, acts, idx,
                             calls, raised, replies, lastActs>>
           \/ /\ Leave(TRUE)
              /\ UNCHANGED stray
    /\ UNCHANGED <<tokenFile, userIdFile, rulesFile, app, filterUser, msgCount,
                   inbox, downloads, substitutions>>

\* The file download_document yielded: its final component and its content.
Original ==
    LET name == update.document.file_name.str
    IN  IF Where(name) = "inside"
        THEN CHOOSE f \in dlDir.files : TRUE
        ELSE [name |-> FinalName(name),
              data |-> (CHOOSE f \in stray : f.path = Location(name)).data]

\* process_document, line 59 to 67: the second temporary directory, fitz.open,
\* select([0]), document[0] and the read of self.actions for the loop.
Open ==
    /\ pc = "process"
    /\ substitutions' = substitutions \cup {msgCount}
    /\ IF /\ Original.data.valid
          /\ ~SelectFails(Original.data.pages, <<0>>)
          /\ actions.ok
       THEN /\ procDir' = mkdtemp
            /\ document' = [open |-> TRUE,
                            pages |-> select(Original.data.pages, <<0>>)]
            /\ acts' = actions.list
            /\ idx' = 1
            /\ calls' = <<>>
            /\ pc' = "rules"
            /\ UNCHANGED <<update, dlDir, raised, replies, lastActs>>
       ELSE \* fitz.open, select or the rules file raised
            /\ Leave(TRUE)
    /\ UNCHANGED <<stray, tokenFile, userIdFile, rulesFile, app, filterUser, msgCount,
                   inbox, downloads>>

\* One pass of the loop of line 67.
ApplyRule ==
    /\ pc = "rules"
    /\ idx <= Len(acts)
    /\ \/ LET r == ApplyEntry(Original.data.pages[1], document.pages[1], idx,
                              acts[idx])
          IN  /\ document' = [document EXCEPT !.pages[1] = r.page]
              /\ calls' = calls \o r.calls
              /\ idx' = idx + 1
              /\ UNCHANGED <<pc, update, dlDir, procDir, acts, raised, replies,
                             lastActs>>
       \/ \* a fitz call of the pass raised
          /\ ~Skipped(acts[idx])
          /\ Leave(TRUE)
    /\ UNCHANGED <<stray, tokenFile, userIdFile, rulesFile, app, filterUser, msgCount,
                   inbox, downloads, substitutions>>

\* process_document, line 60, 61, 94 and 96: document.save under the derived
\* name, the document is closed and the path is yielded.
Save ==
    /\ pc = "rules"
    /\ idx > Len(acts)
    /\ \/ \E hash \in Hashes :
            /\ procDir' = [procDir EXCEPT !.files =
                             {[name |-> OutputName(update.document.file_name.str,
                                                  hash),
                               data |-> [valid |-> TRUE,
                                         pages |-> document.pages]]}]
            /\ document' = Closed
            /\ pc' = "send"
            /\ UNCHANGED <<update, dlDir, acts, idx, calls, raised, replies,
                           lastActs>>
       \/ Leave(TRUE)
    /\ UNCHANGED <<stray, tokenFile, userIdFile, rulesFile, app, filterUser, msgCount,
                   inbox, downloads, substitutions>>

\* The file process_document yielded.
Copy == CHOOSE f \in procDir.files : TRUE

\* handler, line 109: send_document to the chat the update came from; then
\* both scopes exit.
Send ==
    /\ pc = "send"
    /\ \/ Leave(FALSE)
       \/ Leave(TRUE)
    /\ UNCHANGED <<stray, tokenFile, userIdFile, rulesFile, app, filterUser, msgCount,
                   inbox, downloads, substitutions>>

Next ==
    \/ Construct
    \/ Start
    \/ EditRulesFile
    \/ Receive
    \/ GetFile
    \/ Download
    \/ Open
    \/ ApplyRule
    \/ Save
    \/ Send

Spec == Init /\ [][Next]_vars

-----------------------------------------------------------------------------
(* Vocabulary of the properties *)

Replied == {r.msg : r \in replies}

\* The update qualifies: authorized sender, a document, a name ending ".pdf".
Qualifies(m) ==
    /\ inbox[m].from_user = filterUser
    /\ inbox[m].has_message
    /\ inbox[m].has_document
    /\ ~inbox[m].file_name.none
    /\ EndsWith(inbox[m].file_name.str, DotPdf)

\* A rule entry whose find or replacement is missing or empty.
Inert(entry) ==
    \/ entry.replace.none \/ entry.replace.str = <<>>
    \/ entry.with.none \/ entry.with.str = <<>>

\* Page 0 of the downloaded document.
FirstPage == Original.data.pages[1]

\* The page being rewritten, or the page saved once the loop is over.
CurPage == IF pc = "rules" THEN document.pages[1] ELSE Copy.data.pages[1]

RECURSIVE Substitute(_, _, _, _)
\* The page after entries number i, i + 1, ... of the list, applied in order.
Substitute(first, page, entries, i) ==
    IF i > Len(entries) THEN page
    ELSE Substitute(first, ApplyEntry(first, page, i, entries[i]).page,
                    entries, i + 1)

InsertCalls == {k \in 1..Len(calls) : calls[k].op = "insert_text"}

SearchCalls == {k \in 1..Len(calls) : calls[k].op = "search_for"}

CharsOf(text) == {text[i] : i \in 1..Len(text)}

-----------------------------------------------------------------------------
(* Properties *)

\* C1: each of the two temporary directories exists exactly while its scope
\* is active: the download directory from its creation to the handler's exit
\* and with the downloaded file at the yielded path while process_document
\* runs (in the directory when the sender's name is a plain name), the
\* processing directory from its creation to the exit and with the saved copy
\* in it when send_document is called; once the handler has left, returning
\* or raising, neither directory exists.
C1_ScopedDirectories ==
    /\ pc \in {"download", "process", "rules", "send"} => dlDir.exists
    /\ pc \in {"process", "rules", "send"} =>
          LET name == update.document.file_name.str
          IN  IF Where(name) = "inside"
              THEN dlDir.files = {[name |-> FinalName(name),
                                   data |-> update.document.data]}
              ELSE [path |-> Location(name),
                    data |-> update.document.data] \in stray
    /\ pc \in {"rules", "send"} => procDir.exists
    /\ pc = "send" => Cardinality(procDir.files) = 1
    /\ pc \in {"idle", "get_file"} => ~dlDir.exists /\ dlDir.files = {}
    /\ pc \in {"idle", "get_file", "download", "process"} =>
          ~procDir.exists /\ procDir.files = {}

\* A handler that raised after process_document was entered has left.
C1_Witness ==
    /\ pc = "idle"
    /\ msgCount \in raised
    /\ msgCount \in substitutions
    /\ ~dlDir.exists
    /\ ~procDir.exists

\* C2: a download, a substitution or a reply happens only for a qualifying
\* update, and an update that does not qualify causes none of them and
\* raises no error.
C2_OnlyQualifyingNoError ==
    \A m \in 1..msgCount :
        ~Qualifies(m) =>
            m \notin (downloads \cup substitutions \cup Replied \cup raised)

\* C3: every insert_text call follows the redaction of the same occurrence
\* and inserts the find string of its rule; each occurrence found gets one;
\* and a glyph the processing put on the page is a character of a find
\* string, never of a replacement.
C3_FindTextReinserted ==
    pc \in {"rules", "send"} =>
        /\ \A k \in InsertCalls :
            /\ calls[k].text = acts[calls[k].entry].replace.str
            /\ k > 1
            /\ calls[k - 1].op = "apply_redactions"
            /\ calls[k - 1].rect = calls[k].rect
        /\ \A k \in SearchCalls :
            Len(search_for(calls[k].page, calls[k].text)) =
                Cardinality({j \in InsertCalls : calls[j].entry = calls[k].entry})
        /\ \A g \in CurPage \ FirstPage :
            \E i \in 1..Len(acts) :
                /\ ~Inert(acts[i])
                /\ g.c \in CharsOf(acts[i].replace.str)

\* An occurrence was replaced under a rule whose replacement differs from
\* its find string.
C3_Witness ==
    /\ pc = "send"
    /\ \E k \in InsertCalls :
        acts[calls[k].entry].with.str # acts[calls[k].entry].replace.str

\* C4: the saved document has exactly one page, and it is page 0 of the
\* input with the rules applied; the working document has one page
\* throughout the loop.
C4_SinglePage ==
    /\ pc = "rules" => Len(document.pages) = 1
    /\ pc = "send" =>
        /\ Copy.data.valid
        /\ Len(Copy.data.pages) = 1
        /\ Copy.data.pages[1] = Substitute(FirstPage, FirstPage, acts, 1)

\* A document of several pages was saved.
C4_Witness ==
    /\ pc = "send"
    /\ Len(Original.data.pages) > 1
    /\ Original.data.pages[2] # Copy.data.pages[1]

\* C5: the entries are taken in list order, and the search of each runs on
\* the page as all earlier entries left it.
C5_SearchOnMutatedPage ==
    pc \in {"rules", "send"} =>
        /\ \A k \in SearchCalls :
            calls[k].page =
                Substitute(FirstPage, FirstPage,
                           SubSeq(acts, 1, calls[k].entry - 1), 1)
        /\ \A j, k \in 1..Len(calls) : j < k => calls[j].entry <= calls[k].entry
        /\ \A i \in 1..Len(acts) :
            (i < idx /\ ~Inert(acts[i])) =>
                Cardinality({k \in SearchCalls : calls[k].entry = i}) = 1

\* The second rule's search ran on a page the first rule had changed, and
\* found an occurrence overlapping one of the first rule's.
C5_Witness ==
    /\ pc = "send"
    /\ \E k \in SearchCalls :
        /\ calls[k].entry = 2
        /\ calls[k].page # FirstPage
    /\ \E j, k \in InsertCalls :
        /\ calls[j].entry = 1
        /\ calls[k].entry = 2
        /\ calls[j].rect.y0 = calls[k].rect.y0
        /\ calls[j].rect.x0 < calls[k].rect.x1
        /\ calls[k].rect.x0 < calls[j].rect.x1

\* C6: a pass of the loop over an inert entry makes no fitz call, leaves the
\* page alone, raises nothing and moves on to the next entry.
C6_InertEntrySkipped ==
    [][ ( /\ pc = "rules"
          /\ idx <= Len(acts)
          /\ Inert(acts[idx])
          /\ <<pc, idx, document, calls, raised, acts>>'
                # <<pc, idx, document, calls, raised, acts>> )
        => ( /\ pc' = "rules"
             /\ idx' = idx + 1
             /\ acts' = acts
             /\ document' = document
             /\ calls' = calls
             /\ raised' = raised ) ]_vars

\* A rule was applied after an inert entry had been passed.
C6_Witness ==
    /\ pc = "send"
    /\ \E i \in 1..Len(acts) :
        /\ Inert(acts[i])
        /\ \E k \in InsertCalls : calls[k].entry > i

TokenFileBad == tokenFile.none

UserIdFileBad == userIdFile.none \/ ~ParseInt(userIdFile.str).ok

RulesFileBad == ~rulesFile.exists \/ ~rulesFile.parses

\* C7 as stated: with any of the three files missing or malformed at
\* startup, construction of the App fails.
C7_AnyBadFileFatal ==
    [][ (app = "init" /\ (TokenFileBad \/ UserIdFileBad \/ RulesFileBad))
        => app' \notin {"constructed", "running"} ]_vars

\* C7 amended: with the token file or the user-id file missing, or the
\* user-id file not an integer, the App is never constructed, the receive
\* loop is never entered and no update is handled.
C7_TokenOrUserIdFatal ==
    (TokenFileBad \/ UserIdFileBad) =>
        /\ app \in {"init", "crashed"}
        /\ msgCount = 0
        /\ pc = "idle"
        /\ downloads = {}

\* Construction failed on a user-id file that is present and not a number.
C7_Witness ==
    /\ app = "crashed"
    /\ ~TokenFileBad
    /\ ~userIdFile.none
    /\ UserIdFileBad

\* C8: an update whose handler raised has no reply, and the raise leaves
\* the receive loop running with no handler in flight for that update.
C8_FailureSilentAndLocal ==
    /\ \A m \in raised : m \notin Replied
    /\ raised # {} => app = "running"
    /\ msgCount \in raised => pc = "idle"

\* A download or substitution failed, and a later update was answered.
C8_Witness ==
    \E m \in raised \cap downloads : \E n \in Replied : m < n

\* C9: the list a document is processed with is the content of the rules
\* file when its process_document starts; edits made while the loop runs
\* do not change it.
C9_RulesReadThrough ==
    [][ /\ (pc = "process" /\ pc' = "rules") => acts' = rulesFile.entries
        /\ (pc = "process" /\ RulesFileBad) => pc' # "rules"
        /\ (pc = "rules" /\ pc' \in {"rules", "send"}) => acts' = acts ]_vars

\* A second document is processed with rules edited since an answered one.
C9_Witness ==
    /\ pc = "rules"
    /\ ~lastActs.none
    /\ lastActs.list # acts
    /\ (msgCount - 1) \in Replied

\* C10 as stated: the insertion point is the top-left corner (x0, y0) of
\* the occurrence.
C10_InsertAtTopLeft ==
    \A k \in InsertCalls :
        calls[k].point = [x |-> calls[k].rect.x0, y |-> calls[k].rect.y0]

\* C10 amended: the insertion point is the bottom-left corner (x0, y1) of
\* the occurrence, so the inserted glyphs fill the cells the redaction
\* vacated.
C10_InsertAtBottomLeft ==
    pc \in {"rules", "send"} =>
        \A k \in InsertCalls :
            /\ calls[k].point = [x |-> calls[k].rect.x0, y |-> calls[k].rect.y1]
            /\ \A x \in calls[k].rect.x0 .. (calls[k].rect.x1 - 1) :
                \E g \in CurPage : /\ g.x0 = x
                                   /\ g.y0 = calls[k].rect.y0
                                   /\ g.size = FontSize

\* An occurrence on the second line of a page was replaced.
C10_Witness ==
    /\ pc = "rules"
    /\ \E k \in InsertCalls : calls[k].rect.y0 = 1 /\ calls[k].rect.x0 > 0

====
